---- MODULE Spec2Model ----
(***************************************************************************)
(* Money and Odds value types (money.ts, odds.ts).                         *)
(*                                                                         *)
(* JavaScript values are records tagged by their typeof; numbers are       *)
(* either NaN, +Infinity, -Infinity or a finite rational n/d in lowest     *)
(* terms, so that the arithmetic of the source is computed exactly.        *)
(* Strings are sequences of one-character strings, so that parsing and     *)
(* formatting are computed, not assumed.                                   *)
(***************************************************************************)
EXTENDS Integers, Sequences, FiniteSets, TLC

VARIABLES heap, call, out

vars == <<heap, call, out>>

-----------------------------------------------------------------------------
(* Bounds of the model.                                                    *)

\* largest number of Money instances alive in one behaviour
MaxHeap == 2
\* largest |cents| an arithmetic result may have for the run to go on
MaxCents == 2
\* longest portions array handed to split
MaxPortions == 3
\* largest |cents| of the instances a single call is tried on
MaxAmount == 5

-----------------------------------------------------------------------------
(* JavaScript values.                                                      *)

Abs(i) == IF i < 0 THEN -i ELSE i

Sign(i) == IF i < 0 THEN -1 ELSE IF i = 0 THEN 0 ELSE 1

RECURSIVE GCD(_, _)
GCD(a, b) == IF b = 0 THEN a ELSE GCD(b, a % b)

Undefined == [t |-> "undefined"]
Null == [t |-> "object", k |-> "null"]
Bool(b) == [t |-> "boolean", b |-> b]
Str(s) == [t |-> "string", s |-> s]
PlainObject == [t |-> "object", k |-> "plain"]
Arr(items) == [t |-> "object", k |-> "array", items |-> items]
MoneyRef(id) == [t |-> "object", k |-> "money", id |-> id]
NaN == [t |-> "number", k |-> "nan"]
PosInf == [t |-> "number", k |-> "inf", sg |-> 1]
NegInf == [t |-> "number", k |-> "inf", sg |-> -1]
Inf(sg) == IF sg < 0 THEN NegInf ELSE PosInf

\* the finite number n/d, d # 0, in lowest terms with a positive denominator
Fin(n, d) ==
    LET g == GCD(Abs(n), Abs(d))
        s == IF d < 0 THEN -1 ELSE 1
    IN  [t |-> "number", k |-> "fin", n |-> s * (n \div g), d |-> Abs(d) \div g]

Num(i) == Fin(i, 1)

IsNum(v) == v.t = "number"
IsFin(v) == v.t = "number" /\ v.k = "fin"
IsNaNValue(v) == v.t = "number" /\ v.k = "nan"
IsInf(v) == v.t = "number" /\ v.k = "inf"
IsString(v) == v.t = "string"
IsArray(v) == v.t = "object" /\ v.k = "array"
IsMoney(v) == v.t = "object" /\ v.k = "money"
IsInteger(v) == IsFin(v) /\ v.d = 1

\* sign of a number that is not NaN
SignOf(x) == IF IsInf(x) THEN x.sg ELSE Sign(x.n)

typeof(v) == v.t

-----------------------------------------------------------------------------
(* Characters and strings.                                                 *)

Digits == <<"0", "1", "2", "3", "4", "5", "6", "7", "8", "9">>

IsDigit(c) == \E i \in 1..10 : Digits[i] = c

DigitVal(c) == (CHOOSE i \in 1..10 : Digits[i] = c) - 1

Lower == <<"a", "b", "c", "d", "e", "f", "g", "h", "i", "j", "k", "l", "m",
           "n", "o", "p", "q", "r", "s", "t", "u", "v", "w", "x", "y", "z">>
Upper == <<"A", "B", "C", "D", "E", "F", "G", "H", "I", "J", "K", "L", "M",
           "N", "O", "P", "Q", "R", "S", "T", "U", "V", "W", "X", "Y", "Z">>

\* String.prototype.toUpperCase, one character
UpperChar(c) ==
    IF \E i \in 1..26 : Lower[i] = c
    THEN Upper[CHOOSE i \in 1..26 : Lower[i] = c]
    ELSE c

toUpperCase(s) == [i \in 1..Len(s) |-> UpperChar(s[i])]

RECURSIVE TrimStart(_)
TrimStart(s) == IF s # <<>> /\ Head(s) = " " THEN TrimStart(Tail(s)) ELSE s

RECURSIVE TrimEnd(_)
TrimEnd(s) ==
    IF s # <<>> /\ s[Len(s)] = " " THEN TrimEnd(SubSeq(s, 1, Len(s) - 1)) ELSE s

\* String.prototype.trim
trim(s) == TrimEnd(TrimStart(s))

RECURSIVE Pow10(_)
Pow10(k) == IF k = 0 THEN 1 ELSE 10 * Pow10(k - 1)

\* the decimal digits of a natural number
RECURSIVE NatToStr(_)
NatToStr(i) ==
    IF i < 10 THEN <<Digits[i + 1]>>
    ELSE NatToStr(i \div 10) \o <<Digits[(i % 10) + 1]>>

\* the value of a non-empty sequence of digits
RECURSIVE DigitsToNat(_)
DigitsToNat(s) ==
    IF s = <<>> THEN 0
    ELSE 10 * DigitsToNat(SubSeq(s, 1, Len(s) - 1)) + DigitVal(s[Len(s)])

AllDigits(s) == \A i \in 1..Len(s) : IsDigit(s[i])

RECURSIVE ZeroPad(_, _)
ZeroPad(s, len) == IF Len(s) >= len THEN s ELSE ZeroPad(<<"0">> \o s, len)

InfinityStr == <<"I", "n", "f", "i", "n", "i", "t", "y">>
NaNStr == <<"N", "a", "N">>

\* an unsigned StrDecimalLiteral without exponent: digits, digits.digits,
\* digits. or .digits; or Infinity
UnsignedToNumber(s) ==
    IF s = InfinityStr THEN PosInf
    ELSE LET dots == {i \in 1..Len(s) : s[i] = "."}
         IN  IF s = <<>> \/ Cardinality(dots) > 1 THEN NaN
             ELSE IF dots = {} THEN
                      IF AllDigits(s) THEN Num(DigitsToNat(s)) ELSE NaN
             ELSE LET p == CHOOSE i \in dots : TRUE
                      ip == SubSeq(s, 1, p - 1)
                      fp == SubSeq(s, p + 1, Len(s))
                  IN  IF Len(s) = 1 \/ ~AllDigits(ip) \/ ~AllDigits(fp) THEN NaN
                      ELSE Fin(DigitsToNat(ip) * Pow10(Len(fp)) + DigitsToNat(fp),
                               Pow10(Len(fp)))

Negate(x) ==
    IF IsNaNValue(x) THEN NaN
    ELSE IF IsInf(x) THEN Inf(-x.sg)
    ELSE Fin(-x.n, x.d)

\* StringToNumber: white space is trimmed, the empty string is 0, an
\* optional sign precedes the literal (exponents and radix prefixes, which no
\* input of the model uses, are read as not numeric)
StringToNumber(s) ==
    LET u == trim(s)
    IN  IF u = <<>> THEN Num(0)
        ELSE IF Head(u) = "-" THEN Negate(UnsignedToNumber(Tail(u)))
        ELSE IF Head(u) = "+" THEN UnsignedToNumber(Tail(u))
        ELSE UnsignedToNumber(u)

\* ToNumber, the unary + of the source
ToNumber(v) ==
    CASE v.t = "undefined" -> NaN
      [] v.t = "boolean" -> IF v.b THEN Num(1) ELSE Num(0)
      [] v.t = "string" -> StringToNumber(v.s)
      [] v.t = "number" -> v
      [] v.t = "object" ->
            IF v.k = "null" THEN Num(0)
            ELSE IF v.k = "array" /\ v.items = <<>> THEN Num(0)
            ELSE IF v.k = "array" /\ Len(v.items) = 1 /\ IsNum(v.items[1])
                 THEN v.items[1]
            ELSE NaN

\* ToBoolean: what !v negates
Truthy(v) ==
    CASE v.t = "undefined" -> FALSE
      [] v.t = "boolean" -> v.b
      [] v.t = "string" -> v.s # <<>>
      [] v.t = "number" -> IF v.k = "fin" THEN v.n # 0 ELSE v.k = "inf"
      [] v.t = "object" -> v.k # "null"

\* v === 0
IsZero(v) == IsFin(v) /\ v.n = 0

\* the global isNaN(+v) and isFinite(v), which coerce their argument
isNaN(v) == IsNaNValue(ToNumber(v))
isFinite(v) == IsFin(ToNumber(v))

-----------------------------------------------------------------------------
(* Number arithmetic (IEEE special values, exact finite values).           *)

NumAdd(x, y) ==
    IF IsNaNValue(x) \/ IsNaNValue(y) THEN NaN
    ELSE IF IsInf(x) /\ IsInf(y) THEN IF x.sg = y.sg THEN x ELSE NaN
    ELSE IF IsInf(x) THEN x
    ELSE IF IsInf(y) THEN y
    ELSE Fin(x.n * y.d + y.n * x.d, x.d * y.d)

NumSub(x, y) == NumAdd(x, Negate(y))

NumMul(x, y) ==
    IF IsNaNValue(x) \/ IsNaNValue(y) THEN NaN
    ELSE IF IsInf(x) \/ IsInf(y)
         THEN IF SignOf(x) = 0 \/ SignOf(y) = 0 THEN NaN
              ELSE Inf(SignOf(x) * SignOf(y))
    ELSE Fin(x.n * y.n, x.d * y.d)

\* zero is taken as +0
NumDiv(x, y) ==
    IF IsNaNValue(x) \/ IsNaNValue(y) THEN NaN
    ELSE IF IsInf(x) THEN IF IsInf(y) THEN NaN
                          ELSE Inf(x.sg * (IF SignOf(y) < 0 THEN -1 ELSE 1))
    ELSE IF IsInf(y) THEN Num(0)
    ELSE IF y.n = 0 THEN IF x.n = 0 THEN NaN ELSE Inf(Sign(x.n))
    ELSE Fin(x.n * y.d, x.d * y.n)

\* x > y
NumGt(x, y) ==
    IF IsNaNValue(x) \/ IsNaNValue(y) THEN FALSE
    ELSE IF IsInf(x) THEN x.sg = 1 /\ ~(IsInf(y) /\ y.sg = 1)
    ELSE IF IsInf(y) THEN y.sg = -1
    ELSE x.n * y.d > y.n * x.d

\* x < y
NumLt(x, y) == NumGt(y, x)

\* x === y on numbers
NumEq(x, y) == ~IsNaNValue(x) /\ ~IsNaNValue(y) /\ x = y

\* the integer nearest to n/d (n >= 0, d > 0), the larger one on a tie
RoundHalfUpNat(n, d) == (2 * n + d) \div (2 * d)

\* Number.prototype.toFixed(f) for |x| < 10^21: the sign, then the digits of
\* the integer nearest to |x| * 10^f (the larger on a tie) with a point
\* before the last f of them
toFixed(x, f) ==
    IF IsNaNValue(x) THEN NaNStr
    ELSE IF IsInf(x) THEN (IF x.sg < 0 THEN <<"-">> ELSE <<>>) \o InfinityStr
    ELSE LET m == RoundHalfUpNat(Abs(x.n) * Pow10(f), x.d)
             ds == ZeroPad(NatToStr(m), f + 1)
             k == Len(ds) - f
             body == IF f = 0 THEN ds
                     ELSE SubSeq(ds, 1, k) \o <<".">> \o SubSeq(ds, k + 1, Len(ds))
         IN  (IF x.n < 0 THEN <<"-">> ELSE <<>>) \o body

-----------------------------------------------------------------------------
(* class Money.  An instance is a record [cents, currency]; an operation   *)
(* yields an outcome: the error it throws or the value it returns.         *)

Throw(e) == [status |-> "throw", err |-> e]
Return(v) == [status |-> "return", val |-> v]

DEFAULT_CURRENCY == <<"U", "S", "D">>

Hundred == 100

\* TRUE when the check passes, FALSE when it throws ERRORS.infinity
validateInfinity(n) == isFinite(n)

\* TRUE when the check passes, FALSE when it throws ERRORS.invalidType
validateMoneyInstance(a) == IsMoney(a)

\* TRUE when the check passes, FALSE when it throws ERRORS.currencyMismatch
validateCurrency(a, b) == a.currency = b.currency

\* TRUE when the check passes, FALSE when it throws ERRORS.nan
validateNumber(n) ==
    ~((typeof(n) # "number" /\ typeof(n) # "string") \/ isNaN(n))

\* !n && n !== 0
MissingNumber(n) == ~Truthy(n) /\ ~IsZero(n)

\* mutant of RoundToInteger: Math.round, which rounds a half towards +Infinity
RoundToIntegerAsMathRound(x) ==
    IF IsFin(x) THEN Num((2 * x.n + x.d) \div (2 * x.d)) ELSE x

\* +x.toFixed(0)
RoundToInteger(x) == ToNumber(Str(toFixed(x, 0)))

\* new Money(cents, currency): the instance built, or the error thrown
\* (a string that passes the checks has no toFixed: TypeError)
MoneyConstructor(cents, currency) ==
    IF MissingNumber(cents) THEN Throw("missingArg")
    ELSE IF ~validateNumber(cents) THEN Throw("nan")
    ELSE IF ~validateInfinity(cents) THEN Throw("infinity")
    ELSE IF ~IsNum(cents) THEN Throw("TypeError")
    ELSE Return([cents |-> RoundToInteger(cents),
                 currency |-> IF Truthy(currency) /\ Len(trim(currency.s)) > 0
                              THEN toUpperCase(trim(currency.s))
                              ELSE DEFAULT_CURRENCY])

\* mutant of fromUnit: the presence check forgets that 0 is an amount
fromUnitRejectsZero(f, currency) ==
    IF ~Truthy(f) \/ isNaN(f) THEN Throw("unableToConvert")
    ELSE MoneyConstructor(RoundToInteger(NumMul(ToNumber(f), Num(Hundred))), currency)

\* Money.fromUnit(f, currency)
fromUnit(f, currency) ==
    IF MissingNumber(f) \/ isNaN(f) THEN Throw("unableToConvert")
    ELSE MoneyConstructor(RoundToInteger(NumMul(ToNumber(f), Num(Hundred))), currency)

\* mutant of plus: the type of the operand is checked before its presence
plusChecksTypeFirst(h, this, m) ==
    IF ~validateMoneyInstance(m) THEN Throw("invalidType")
    ELSE IF ~Truthy(m) THEN Throw("missingArg")
    ELSE IF ~validateCurrency(this, h[m.id]) THEN Throw("currencyMismatch")
    ELSE MoneyConstructor(NumAdd(this.cents, h[m.id].cents), Str(this.currency))

\* this.plus(m), this an instance and m a value; h is the heap
plus(h, this, m) ==
    IF ~Truthy(m) THEN Throw("missingArg")
    ELSE IF ~validateMoneyInstance(m) THEN Throw("invalidType")
    ELSE IF ~validateCurrency(this, h[m.id]) THEN Throw("currencyMismatch")
    ELSE MoneyConstructor(NumAdd(this.cents, h[m.id].cents), Str(this.currency))

\* mutant of minus: the operands of the subtraction are swapped
minusSwapped(h, this, m) ==
    IF ~Truthy(m) THEN Throw("missingArg")
    ELSE IF ~validateMoneyInstance(m) THEN Throw("invalidType")
    ELSE IF ~validateCurrency(this, h[m.id]) THEN Throw("currencyMismatch")
    ELSE MoneyConstructor(NumSub(h[m.id].cents, this.cents), Str(this.currency))

\* this.minus(m)
minus(h, this, m) ==
    IF ~Truthy(m) THEN Throw("missingArg")
    ELSE IF ~validateMoneyInstance(m) THEN Throw("invalidType")
    ELSE IF ~validateCurrency(this, h[m.id]) THEN Throw("currencyMismatch")
    ELSE MoneyConstructor(NumSub(this.cents, h[m.id].cents), Str(this.currency))

\* this.times(n)
times(this, n) ==
    IF MissingNumber(n) THEN Throw("missingArg")
    ELSE IF ~validateNumber(n) THEN Throw("nan")
    ELSE MoneyConstructor(NumMul(this.cents, ToNumber(n)), Str(this.currency))

\* this.divide(n)
divide(this, n) ==
    IF MissingNumber(n) THEN Throw("missingArg")
    ELSE IF ~validateNumber(n) THEN Throw("nan")
    ELSE IF IsZero(ToNumber(n)) THEN Throw("zeroDivision")
    ELSE MoneyConstructor(NumDiv(this.cents, ToNumber(n)), Str(this.currency))

\* mutant of perc: the percentage is taken as a fraction of 1, not of 100
percOfOne(this, n) ==
    IF MissingNumber(n) THEN Throw("missingArg")
    ELSE IF ~validateNumber(n) THEN Throw("nan")
    ELSE MoneyConstructor(RoundToInteger(NumMul(this.cents, ToNumber(n))),
                          Str(this.currency))

\* this.perc(n)
perc(this, n) ==
    IF MissingNumber(n) THEN Throw("missingArg")
    ELSE IF ~validateNumber(n) THEN Throw("nan")
    ELSE MoneyConstructor(
             RoundToInteger(NumDiv(NumMul(this.cents, ToNumber(n)), Num(Hundred))),
             Str(this.currency))

\* the forEach of split from portion i on, then the check of the sum
RECURSIVE splitLoop(_, _, _, _, _, _)
splitLoop(this, portions, i, portionsSum, available, results) ==
    IF i > Len(portions)
    THEN IF ~NumEq(portionsSum, Num(Hundred)) THEN Throw("portionsSum")
         ELSE Return(results)
    ELSE LET portion == portions[i]
             sum == NumAdd(portionsSum, portion)
             result == RoundToInteger(
                           NumDiv(NumMul(this.cents, portion), Num(Hundred)))
         IN  IF NumGt(result, available)
             THEN LET r == MoneyConstructor(available, Str(this.currency))
                  IN  IF r.status = "throw" THEN r
                      ELSE splitLoop(this, portions, i + 1, sum, available,
                                     Append(results, r.val))
             ELSE LET r == MoneyConstructor(result, Str(this.currency))
                  IN  IF r.status = "throw" THEN r
                      ELSE splitLoop(this, portions, i + 1, sum,
                                     NumSub(available, result),
                                     Append(results, r.val))

\* this.split(portions): the sequence of instances built, or the error
split(this, portions) ==
    IF ~Truthy(portions) \/ ~IsArray(portions) \/ Len(portions.items) = 0
    THEN Throw("missingArg")
    ELSE splitLoop(this, portions.items, 1, Num(0), this.cents, <<>>)

\* this.getSubunit()
getSubunit(this) == this.cents

\* this.getUnit()
getUnit(this) == ToNumber(Str(toFixed(NumDiv(this.cents, Num(Hundred)), 2)))

\* this.getCurrency()
getCurrency(this) == Str(this.currency)

\* this.toString(): the amount, locale and options handed to toLocaleString
toString(this) ==
    [amount |-> NumDiv(this.cents, Num(Hundred)), locale |-> "en-US",
     style |-> "currency", currency |-> this.currency]

\* this.toLocale(locale, options)
toLocale(this, locale, options) ==
    [amount |-> NumDiv(this.cents, Num(Hundred)), locale |-> locale,
     options |-> options]

\* mutant of eq: the currencies are not compared
eqAmountOnly(this, m) == NumEq(getUnit(this), getUnit(m))

\* this.eq(m)
eq(this, m) == NumEq(getUnit(this), getUnit(m)) /\ this.currency = m.currency

\* this.lt(m)
lt(this, m) ==
    IF this.currency # m.currency THEN Throw("comparison")
    ELSE Return(Bool(NumLt(getUnit(this), getUnit(m))))

\* this.gt(m)
gt(this, m) ==
    IF this.currency # m.currency THEN Throw("comparison")
    ELSE Return(Bool(NumGt(getUnit(this), getUnit(m))))

\* mutant of lte: equal amounts are not counted
lteStrict(this, m) ==
    IF this.currency # m.currency THEN Throw("comparison")
    ELSE Return(Bool(NumLt(getUnit(this), getUnit(m))))

\* this.lte(m)
lte(this, m) ==
    IF this.currency # m.currency THEN Throw("comparison")
    ELSE Return(Bool(NumLt(getUnit(this), getUnit(m))
                     \/ NumEq(getUnit(this), getUnit(m))))

\* this.gte(m)
gte(this, m) ==
    IF this.currency # m.currency THEN Throw("comparison")
    ELSE Return(Bool(NumGt(getUnit(this), getUnit(m))
                     \/ NumEq(getUnit(this), getUnit(m))))

-----------------------------------------------------------------------------
(* The operations as steps of a client program.  heap holds the instances  *)
(* built so far (a reference is an index of heap), call the last call made *)
(* and out its outcome.                                                    *)

Refs == {MoneyRef(i) : i \in DOMAIN heap}

Called(op, this, args) == call' = [op |-> op, this |-> this, args |-> args]

\* the outcome r of an operation that builds one instance
Build(r) ==
    IF r.status = "throw"
    THEN heap' = heap /\ out' = r
    ELSE heap' = Append(heap, r.val) /\ out' = Return(MoneyRef(Len(heap) + 1))

\* the outcome r of an operation that builds nothing
Answer(r) == heap' = heap /\ out' = r

New(cents, currency) ==
    /\ Called("new", 0, <<cents, currency>>)
    /\ Build(MoneyConstructor(cents, currency))

FromUnit(f, currency) ==
    /\ Called("fromUnit", 0, <<f, currency>>)
    /\ Build(fromUnit(f, currency))

\* mutant of Plus: the sum is stored in the receiver, which is returned
PlusInPlace(i, m) ==
    /\ Called("plus", i, <<m>>)
    /\ LET r == plus(heap, heap[i], m)
       IN  IF r.status = "throw"
           THEN heap' = heap /\ out' = r
           ELSE heap' = [heap EXCEPT ![i] = r.val] /\ out' = Return(MoneyRef(i))

Plus(i, m) ==
    /\ Called("plus", i, <<m>>)
    /\ Build(plus(heap, heap[i], m))

Minus(i, m) ==
    /\ Called("minus", i, <<m>>)
    /\ Build(minus(heap, heap[i], m))

Times(i, n) ==
    /\ Called("times", i, <<n>>)
    /\ Build(times(heap[i], n))

Divide(i, n) ==
    /\ Called("divide", i, <<n>>)
    /\ Build(divide(heap[i], n))

Perc(i, n) ==
    /\ Called("perc", i, <<n>>)
    /\ Build(perc(heap[i], n))

Split(i, portions) ==
    /\ Called("split", i, <<portions>>)
    /\ LET r == split(heap[i], portions)
       IN  IF r.status = "throw"
           THEN heap' = heap /\ out' = r
           ELSE /\ heap' = heap \o r.val
                /\ out' = Return(Arr([k \in 1..Len(r.val) |->
                                         MoneyRef(Len(heap) + k)]))

Compare(op, i, j) ==
    /\ Called(op, i, <<MoneyRef(j)>>)
    /\ Answer(CASE op = "eq" -> Return(Bool(eq(heap[i], heap[j])))
                [] op = "lt" -> lt(heap[i], heap[j])
                [] op = "gt" -> gt(heap[i], heap[j])
                [] op = "lte" -> lte(heap[i], heap[j])
                [] op = "gte" -> gte(heap[i], heap[j]))

Read(op, i) ==
    /\ Called(op, i, <<>>)
    /\ Answer(CASE op = "getSubunit" -> Return(getSubunit(heap[i]))
                [] op = "getUnit" -> Return(getUnit(heap[i]))
                [] op = "getCurrency" -> Return(getCurrency(heap[i]))
                [] op = "toString" -> Return(toString(heap[i]))
                [] op = "toLocale" -> Return(toLocale(heap[i], Undefined, Undefined)))

-----------------------------------------------------------------------------
(* Inputs.                                                                 *)

Ten == Str(<<"t", "e", "n">>)
Eur == Str(<<" ", "e", "u", "r">>)
Empty == Str(<<>>)

CompareOps == {"eq", "lt", "gt", "lte", "gte"}
ReadOps == {"getSubunit", "getUnit", "getCurrency", "toString", "toLocale"}

NoCall == [op |-> "none", this |-> 0, args |-> <<>>]
NoOutcome == [status |-> "none"]

-----------------------------------------------------------------------------
(* Spec: a client program that makes any sequence of calls, on few inputs. *)

CentsInputs == {Undefined, Num(1), Fin(-1, 2)}
CurrencyInputs == {Undefined, Eur}
UnitInputs == {Str(<<"0", ".", "0", "1", "4">>)}
OperandInputs == {Undefined}
FactorInputs == {Ten, Num(2), Fin(1, 2), Num(50)}
PortionsInputs ==
    {Arr(<<>>), Arr(<<Num(Hundred)>>), Arr(<<Num(50), Num(50)>>),
     Arr(<<Num(50), Num(40)>>)}

\* the numbers the bounds keep a run within
InRange(c) == IsFin(c) /\ Abs(c.n) <= MaxCents * c.d

Bounded(h) == Len(h) <= MaxHeap /\ \A i \in DOMAIN h : InRange(h[i].cents)

Init ==
    /\ heap = <<>>
    /\ call = NoCall
    /\ out = NoOutcome

NewStep ==
    \E c \in CentsInputs, cur \in CurrencyInputs : New(c, cur) /\ Bounded(heap')

FromUnitStep ==
    \E f \in UnitInputs, cur \in CurrencyInputs : FromUnit(f, cur) /\ Bounded(heap')

PlusStep ==
    \E i \in DOMAIN heap, m \in OperandInputs \cup Refs : Plus(i, m) /\ Bounded(heap')

MinusStep ==
    \E i \in DOMAIN heap, m \in OperandInputs \cup Refs : Minus(i, m) /\ Bounded(heap')

TimesStep ==
    \E i \in DOMAIN heap, n \in FactorInputs : Times(i, n) /\ Bounded(heap')

DivideStep ==
    \E i \in DOMAIN heap, n \in FactorInputs : Divide(i, n) /\ Bounded(heap')

PercStep ==
    \E i \in DOMAIN heap, n \in FactorInputs : Perc(i, n) /\ Bounded(heap')

SplitStep ==
    \E i \in DOMAIN heap, p \in PortionsInputs : Split(i, p) /\ Bounded(heap')

CompareStep ==
    \E op \in CompareOps, i, j \in DOMAIN heap : Compare(op, i, j)

ReadStep ==
    \E op \in ReadOps, i \in DOMAIN heap : Read(op, i)

Next ==
    \/ NewStep
    \/ FromUnitStep
    \/ PlusStep
    \/ MinusStep
    \/ TimesStep
    \/ DivideStep
    \/ PercStep
    \/ SplitStep
    \/ CompareStep
    \/ ReadStep

Spec == Init /\ [][Next]_vars

-----------------------------------------------------------------------------
(* SpecOne: one call, on many inputs, made by a client that holds one      *)
(* instance.  SpecPair: one call made by a client that holds two.          *)

USD == <<"U", "S", "D">>
EUR == <<"E", "U", "R">>

Instances ==
    {[cents |-> Num(c), currency |-> cur] :
        c \in (-MaxAmount)..MaxAmount, cur \in {USD, EUR}}

NumericInputs ==
    {Undefined, Null, Bool(FALSE), Bool(TRUE), Empty, Ten, PlainObject, Arr(<<>>),
     NaN, PosInf, NegInf, Str(<<"0">>), Str(<<"2">>), Str(<<"1", ".", "5">>),
     Num(0), Num(1), Num(2), Num(-2), Num(3), Num(40), Num(50),
     Fin(1, 2), Fin(-3, 2), Fin(5, 2), Fin(12, 5), Fin(333, 100)}

UnitStrings ==
    {Str(<<"1", "9", ".", "9", "9">>), Str(<<"0", ".", "0", "1", "5">>),
     Str(<<"-", "0", ".", "0", "1", "4">>), Str(<<" ">>),
     Str(<<"1", "9", ".", "1", "5", "9", "9">>), Str(InfinityStr)}

PortionInputs == {Num(25), Num(30), Num(40), Num(50), Num(Hundred), NaN, PosInf}

RECURSIVE SeqsUpTo(_, _)
SeqsUpTo(set, len) ==
    IF len = 0 THEN {<<>>}
    ELSE LET shorter == SeqsUpTo(set, len - 1)
         IN  shorter \cup {Append(q, x) : q \in shorter, x \in set}

PortionsArgs ==
    {Undefined, Null, Num(Hundred), PlainObject}
        \cup {Arr(q) : q \in SeqsUpTo(PortionInputs, MaxPortions)}

OperandArgs ==
    {Undefined, Null, Bool(FALSE), Bool(TRUE), Empty, Str(<<"1">>), NaN, Num(0),
     Num(1), PlainObject}

InitOne ==
    /\ heap \in {<<a>> : a \in Instances}
    /\ call = NoCall
    /\ out = NoOutcome

InitPair ==
    /\ heap \in {<<a, b>> : a, b \in Instances}
    /\ call = NoCall
    /\ out = NoOutcome

NewCall ==
    /\ call = NoCall
    /\ \E c \in NumericInputs, cur \in CurrencyInputs : New(c, cur)

FromUnitCall ==
    /\ call = NoCall
    /\ \E f \in NumericInputs \cup UnitStrings, cur \in CurrencyInputs :
           FromUnit(f, cur)

TimesCall ==
    /\ call = NoCall
    /\ \E i \in DOMAIN heap, n \in NumericInputs : Times(i, n)

DivideCall ==
    /\ call = NoCall
    /\ \E i \in DOMAIN heap, n \in NumericInputs : Divide(i, n)

PercCall ==
    /\ call = NoCall
    /\ \E i \in DOMAIN heap, n \in NumericInputs : Perc(i, n)

SplitCall ==
    /\ call = NoCall
    /\ \E i \in DOMAIN heap, p \in PortionsArgs : Split(i, p)

PlusCall ==
    /\ call = NoCall
    /\ \E i \in DOMAIN heap, m \in OperandArgs \cup Refs : Plus(i, m)

MinusCall ==
    /\ call = NoCall
    /\ \E i \in DOMAIN heap, m \in OperandArgs \cup Refs : Minus(i, m)

CompareCall ==
    /\ call = NoCall
    /\ \E op \in CompareOps, i, j \in DOMAIN heap : Compare(op, i, j)

ReadCall ==
    /\ call = NoCall
    /\ \E op \in ReadOps, i \in DOMAIN heap : Read(op, i)

NextOne ==
    \/ NewCall
    \/ FromUnitCall
    \/ TimesCall
    \/ DivideCall
    \/ PercCall
    \/ SplitCall
    \/ ReadCall

NextPair ==
    \/ PlusCall
    \/ MinusCall
    \/ CompareCall

SpecOne == InitOne /\ [][NextOne]_vars

SpecPair == InitPair /\ [][NextPair]_vars

-----------------------------------------------------------------------------
(* SpecChain: a client that holds a and b and chains calls on the results, *)
(* a.plus(b).minus(b).eq(a) or a.plus(b).times(n).minus(b).perc(p), with   *)
(* divide in the place of times as well.  heap is <<a, b, results...>>.    *)

ChainFactors ==
    {Num(0), Num(3), Num(-2), Fin(1, 2), Fin(5, 2), Fin(-3, 2), Str(<<"2">>)}

ChainPercents == {Num(0), Num(40), Num(50), Fin(333, 100), Str(<<"1", ".", "5">>)}

Last == Len(heap)

ChainPlus ==
    /\ call = NoCall
    /\ Plus(1, MoneyRef(2))

ChainTimes ==
    /\ call.op = "plus" /\ out.status = "return"
    /\ \E n \in ChainFactors : Times(Last, n)

ChainDivide ==
    /\ call.op = "plus" /\ out.status = "return"
    /\ \E n \in ChainFactors : Divide(Last, n)

ChainMinus ==
    /\ call.op \in {"plus", "times", "divide"} /\ out.status = "return"
    /\ Minus(Last, MoneyRef(2))

ChainEq ==
    /\ call.op = "minus" /\ out.status = "return" /\ Last = 4
    /\ Compare("eq", Last, 1)

ChainPerc ==
    /\ call.op = "minus" /\ out.status = "return" /\ Last = 5
    /\ \E p \in ChainPercents : Perc(Last, p)

NextChain ==
    \/ ChainPlus
    \/ ChainTimes
    \/ ChainDivide
    \/ ChainMinus
    \/ ChainEq
    \/ ChainPerc

SpecChain == InitPair /\ [][NextChain]_vars

-----------------------------------------------------------------------------
(* SpecEq: a client that holds a, builds b from a raw amount and compares  *)
(* the two with eq, in both orders.                                        *)

EqAfterNew ==
    /\ call.op = "new" /\ out.status = "return"
    /\ \E i, j \in DOMAIN heap : Compare("eq", i, j)

NextEq ==
    \/ NewCall
    \/ EqAfterNew

SpecEq == InitOne /\ [][NextEq]_vars

-----------------------------------------------------------------------------
(* Numbers as IEEE doubles.  A number n/d of the model stands for the      *)
(* double nearest to n/d.  The two differ by less than one part in 2^53,   *)
(* which decides a rounding only when n/d lies half-way between the two    *)
(* candidates: there the side of n/d the double lies on decides.           *)

\* r * 2^k modulo d
RECURSIVE DoublingMod(_, _, _)
DoublingMod(r, d, k) ==
    IF k = 0 THEN r
    ELSE IF k >= 8 THEN DoublingMod((256 * r) % d, d, k - 8)
    ELSE DoublingMod((2 * r) % d, d, k - 1)

\* the least j >= 0 with 2^j > i, the number of bits of the natural number i
RECURSIVE BitLength(_)
BitLength(i) == IF i = 0 THEN 0 ELSE 1 + BitLength(i \div 2)

\* the least j >= 1 with n * 2^j >= d, for 0 < n < d
RECURSIVE LeadingShift(_, _)
LeadingShift(n, d) == IF 2 * n >= d THEN 1 ELSE 1 + LeadingShift(2 * n, d)

\* the number of binary places of the 53-bit significand of n/d > 0
BinaryPlaces(n, d) ==
    IF n >= d THEN 53 - BitLength(n \div d) ELSE 52 + LeadingShift(n, d)

\* TRUE when n/d has a finite binary expansion, so that results this small
\* are doubles themselves
IsDyadic(x) == IsFin(x) /\ \E j \in 0..12 : x.d = 2 ^ j

\* TRUE when the double nearest to |x| is smaller than |x| (round to nearest,
\* ties to even), x a finite number other than 0 of magnitude below 2^53
DoubleIsBelow(x) ==
    LET n == Abs(x.n)
        k == BinaryPlaces(n, x.d)
        r == DoublingMod(n % x.d, x.d, k)
        odd == 2 * DoublingMod(n % x.d, x.d, k - 1) >= x.d
    IN  IF r = 0 THEN FALSE
        ELSE IF 2 * r = x.d THEN ~odd
        ELSE 2 * r < x.d

\* the digits of the natural number m with a point before the last f
FixedString(neg, m, f) ==
    LET ds == ZeroPad(NatToStr(m), f + 1)
        k == Len(ds) - f
        body == IF f = 0 THEN ds
                ELSE SubSeq(ds, 1, k) \o <<".">> \o SubSeq(ds, k + 1, Len(ds))
    IN  (IF neg THEN <<"-">> ELSE <<>>) \o body

\* TRUE when x * 10^f lies half-way between two integers
IsFixedTie(x, f) == IsFin(x) /\ (2 * Abs(x.n) * Pow10(f)) % (2 * x.d) = x.d

\* x.toFixed(f) where the double x lies below (in magnitude) the number x of
\* the model when below is TRUE: a half-way case then takes the smaller
\* candidate, and in every other case the digits are those of toFixed
toFixedOf(x, f, below) ==
    IF IsFixedTie(x, f) /\ below
    THEN FixedString(x.n < 0, RoundHalfUpNat(Abs(x.n) * Pow10(f), x.d) - 1, f)
    ELSE toFixed(x, f)

\* x.toFixed(f) for x read from a literal or a string: the double nearest to x
toFixedOfLiteral(x, f) ==
    toFixedOf(x, f, IsFixedTie(x, f) /\ DoubleIsBelow(x))

\* x.toFixed(f) for x computed by arithmetic on doubles: exact when x is
\* dyadic, else on the side the accumulated rounding (below) put it
toFixedOfComputed(x, f, below) ==
    toFixedOf(x, f, ~IsDyadic(x) /\ below)

\* Math.round(x) with the same convention: the integer nearest to x, the
\* larger one in a half-way case unless the double lies below it
MathRound(x, below) ==
    IF ~IsFin(x) THEN x
    ELSE LET fl == (2 * x.n + x.d) \div (2 * x.d)
             tie == (2 * x.n + x.d) % (2 * x.d) = 0
         IN  IF tie /\ below THEN Num(fl - 1) ELSE Num(fl)

\* the least k with d dividing 10^k, for the denominators of decimal literals
RECURSIVE DecimalPlaces(_, _)
DecimalPlaces(d, k) ==
    IF Pow10(k) % d = 0 \/ k = 6 THEN k ELSE DecimalPlaces(d, k + 1)

\* Number.prototype.toString and the number in a template literal: the
\* shortest decimal that reads back as the number
NumberToString(x) ==
    IF IsNaNValue(x) THEN NaNStr
    ELSE IF IsInf(x) THEN (IF x.sg < 0 THEN <<"-">> ELSE <<>>) \o InfinityStr
    ELSE IF x.d = 1 THEN (IF x.n < 0 THEN <<"-">> ELSE <<>>) \o NatToStr(Abs(x.n))
    ELSE toFixed(x, DecimalPlaces(x.d, 1))

\* String(v), the v of a template literal
ToStringValue(v) ==
    CASE v.t = "undefined" -> <<"u", "n", "d", "e", "f", "i", "n", "e", "d">>
      [] v.t = "boolean" -> IF v.b THEN <<"t", "r", "u", "e">>
                            ELSE <<"f", "a", "l", "s", "e">>
      [] v.t = "string" -> v.s
      [] v.t = "number" -> NumberToString(v)
      [] v.t = "object" -> IF v.k = "null" THEN <<"n", "u", "l", "l">>
                           ELSE IF v.k = "array" /\ v.items = <<>> THEN <<>>
                           ELSE <<"[", "o", "b", "j", "e", "c", "t", "]">>

\* String.prototype.toLowerCase, one character
LowerChar(c) ==
    IF \E i \in 1..26 : Upper[i] = c
    THEN Lower[CHOOSE i \in 1..26 : Upper[i] = c]
    ELSE c

\* format.toLowerCase().charAt(0)
FirstCharLower(s) == IF s = <<>> THEN <<>> ELSE <<LowerChar(s[1])>>

\* String.prototype.split on a one-character separator
RECURSIVE SplitOn(_, _)
SplitOn(s, c) ==
    LET hits == {i \in 1..Len(s) : s[i] = c}
    IN  IF hits = {} THEN <<s>>
        ELSE LET p == CHOOSE i \in hits : \A j \in hits : i <= j
             IN  <<SubSeq(s, 1, p - 1)>> \o SplitOn(SubSeq(s, p + 1, Len(s)), c)

\* TRUE when the string reads as the number -0
IsNegativeZero(s) ==
    LET u == trim(s)
    IN  u # <<>> /\ Head(u) = "-" /\ IsZero(StringToNumber(s))

\* x / y where the sign of a zero divisor is given (negZero: y is -0)
NumDivSigned(x, y, negZero) ==
    IF IsZero(y) /\ negZero THEN Negate(NumDiv(x, y)) ELSE NumDiv(x, y)

\* a % b of JavaScript: the sign of the dividend, NaN for an infinite
\* dividend or a zero divisor, the dividend for an infinite divisor
NumRem(a, b) ==
    IF IsNaNValue(a) \/ IsNaNValue(b) \/ IsInf(a) \/ IsZero(b) THEN NaN
    ELSE IF IsInf(b) THEN a
    ELSE LET n == Abs(a.n) * b.d
             m == Abs(b.n) * a.d
         IN  Fin(Sign(a.n) * (n % m), a.d * b.d)

-----------------------------------------------------------------------------
(* class Odds.  An instance is a record [d, f, a] of field values, each    *)
(* undefined until the constructor assigns it.  The constructor is the     *)
(* sequence of its effects in program order: assignments, or one throw.    *)
(* ties tells, for the results of floating-point arithmetic that the exact *)
(* arithmetic puts half-way, whether the double lies below: fix for the    *)
(* number handed to toFixed, rnd for the number handed to Math.round.      *)

OddsError(name, v) == [name |-> name, v |-> v]

Assign(field, v) == [status |-> "assign", field |-> field, val |-> v]

Passes == [status |-> "pass"]

\* validateD(p): passes, or the error thrown
validateD(p) ==
    IF typeof(p) # "string" /\ typeof(p) # "number"
    THEN Throw(OddsError("invalidPrice", ToStringValue(p)))
    ELSE IF isNaN(p) \/ ~isFinite(p)
    THEN Throw(OddsError("nan", NumberToString(ToNumber(p))))
    ELSE IF ~NumGt(ToNumber(p), Num(0))
    THEN Throw(OddsError("negative", <<>>))
    ELSE Passes

\* validateF(p)
validateF(p) ==
    IF typeof(p) # "string"
    THEN Throw(OddsError("invalidPrice", ToStringValue(p)))
    ELSE LET parts == SplitOn(p.s, "/")
         IN  IF Len(parts) # 2 \/ isNaN(Str(parts[1])) \/ isNaN(Str(parts[2]))
             THEN Throw(OddsError("invalidFraction", p.s))
             ELSE Passes

\* validateA(p)
validateA(p) ==
    IF typeof(p) # "string" \/ Len(p.s) < 2
    THEN Throw(OddsError("invalidPrice", ToStringValue(p)))
    ELSE IF p.s[1] \notin {"-", "+"} \/ isNaN(Str(Tail(p.s)))
    THEN Throw(OddsError("invalidAmerican", p.s))
    ELSE Passes

\* findGreatestCommonDen(a, b) of simplifyFraction
RECURSIVE findGreatestCommonDen(_, _)
findGreatestCommonDen(a, b) ==
    IF Truthy(b) THEN findGreatestCommonDen(b, NumRem(a, b)) ELSE a

\* mutant of simplifyFraction: the fraction is not divided by the divisor
simplifyFractionUnreduced(num, den) ==
    IF ~Truthy(den) \/ IsNaNValue(num) \/ IsNaNValue(den) THEN Null
    ELSE Str(NumberToString(num) \o <<"/">> \o NumberToString(den))

\* simplifyFraction(num, den): a string, or null
simplifyFraction(num, den) ==
    IF ~Truthy(den) \/ IsNaNValue(num) \/ IsNaNValue(den) THEN Null
    ELSE LET greatestCommonDen == findGreatestCommonDen(num, den)
             simplifiedNum == NumDiv(num, greatestCommonDen)
             simplifiedDen == NumDiv(den, greatestCommonDen)
         IN  Str(NumberToString(simplifiedNum) \o <<"/">>
                     \o NumberToString(simplifiedDen))

\* dToF(p), p a string
dToF(p) ==
    LET n == ToNumber(p)
        dec == ToNumber(Str(toFixedOfLiteral(n, 2)))
        num == NumSub(MathRound(NumMul(dec, Num(Hundred)), FALSE), Num(Hundred))
        den == Num(Hundred)
    IN  simplifyFraction(num, den)

\* mutant of dToA: the sentinel is forgotten
dToANoSentinel(p, ties) ==
    LET n == ToNumber(p)
        below == ~IsDyadic(n) /\ ties.rnd
    IN  IF NumLt(n, Num(2))
        THEN Str(NumberToString(
                     MathRound(NumDiv(Num(-Hundred), NumSub(n, Num(1))), below)))
        ELSE Str(<<"+">> \o NumberToString(
                     MathRound(NumMul(NumSub(n, Num(1)), Num(Hundred)), below)))

\* dToA(p), p a string
dToA(p, ties) ==
    LET n == ToNumber(p)
        below == ~IsDyadic(n) /\ ties.rnd
    IN  IF NumEq(n, Num(1)) THEN Str(<<"-">>)
        ELSE IF NumLt(n, Num(2))
        THEN Str(NumberToString(
                     MathRound(NumDiv(Num(-Hundred), NumSub(n, Num(1))), below)))
        ELSE Str(<<"+">> \o NumberToString(
                     MathRound(NumMul(NumSub(n, Num(1)), Num(Hundred)), below)))

\* fToD(p), p a string that passed validateF
fToD(p, ties) ==
    LET parts == SplitOn(p.s, "/")
        num == ToNumber(Str(parts[1]))
        den == ToNumber(Str(parts[2]))
        dec == NumAdd(NumDivSigned(num, den, IsNegativeZero(parts[2])), Num(1))
    IN  Str(toFixedOfComputed(dec, 2, ties.fix))

\* mutant of aToD: a negative price is converted as a positive one
aToDIgnoresSign(p, ties) ==
    LET n == ToNumber(Str(Tail(p.s)))
        dec == NumAdd(Num(1), NumDiv(n, Num(Hundred)))
    IN  Str(toFixedOfComputed(dec, 2, ties.fix))

\* aToD(p), p a string that passed validateA
aToD(p, ties) ==
    LET pos == p.s[1] = "+"
        rest == Tail(p.s)
        n == ToNumber(Str(rest))
        dec == IF pos THEN NumAdd(Num(1), NumDiv(n, Num(Hundred)))
               ELSE NumSub(Num(1),
                           NumDivSigned(Num(Hundred), Negate(n),
                                        ~IsNegativeZero(rest)))
    IN  Str(toFixedOfComputed(dec, 2, ties.fix))

\* price.toString(): a string, or the TypeError of null and undefined
priceToString(price) ==
    IF price \in {Undefined, Null} THEN Throw(OddsError("TypeError", <<>>))
    ELSE Return(Str(ToStringValue(price)))

\* mutant of decimalBranch: the decimal field keeps 3 decimals
decimalBranchKeepsThree(price, ties) ==
    LET v == validateD(price)
        n == ToNumber(price)
    IN  IF v # Passes THEN <<v>>
        ELSE <<Assign("d", Str(toFixedOfLiteral(n, 3))),
               Assign("f", dToF(Str(toFixedOfLiteral(n, 3)))),
               Assign("a", dToA(Str(toFixedOfLiteral(n, 3)), ties))>>

\* the branch of the constructor for the decimal format
decimalBranch(price, ties) ==
    LET v == validateD(price)
        n == ToNumber(price)
    IN  IF v # Passes THEN <<v>>
        ELSE <<Assign("d", Str(toFixedOfLiteral(n, 2))),
               Assign("f", dToF(Str(toFixedOfLiteral(n, 3)))),
               Assign("a", dToA(Str(toFixedOfLiteral(n, 3)), ties))>>

\* the branch for the fractional format
fractionalBranch(price, ties) ==
    LET s == priceToString(price)
    IN  IF s.status = "throw" THEN <<s>>
        ELSE IF validateF(s.val) # Passes THEN <<validateF(s.val)>>
        ELSE LET d == fToD(s.val, ties)
             IN  <<Assign("f", s.val), Assign("d", d), Assign("a", dToA(d, ties))>>

\* the branch for the american format
americanBranch(price, ties) ==
    LET s == priceToString(price)
    IN  IF s.status = "throw" THEN <<s>>
        ELSE IF validateA(s.val) # Passes THEN <<validateA(s.val)>>
        ELSE LET d == aToD(s.val, ties)
             IN  <<Assign("a", s.val), Assign("d", d),
                   Assign("f", dToF(Str(toFixedOfLiteral(ToNumber(d), 3))))>>

\* mutant of OddsConstructor: the decimal field is assigned before the price
\* is validated
OddsConstructorAssignsFirst(price, format, ties) ==
    IF ~Truthy(format) \/ (IsString(format) /\ FirstCharLower(format.s) = <<"d">>)
    THEN <<Assign("d", Str(toFixedOfLiteral(ToNumber(price), 2)))>>
             \o decimalBranch(price, ties)
    ELSE IF ~IsString(format) THEN <<Throw(OddsError("TypeError", <<>>))>>
    ELSE IF FirstCharLower(format.s) = <<"f">> THEN fractionalBranch(price, ties)
    ELSE IF FirstCharLower(format.s) = <<"a">> THEN americanBranch(price, ties)
    ELSE <<Throw(OddsError("unknownFormat", format.s))>>

\* new Odds(price, format): the effects of the constructor, in order (a
\* format that is truthy and no string has no toLowerCase: TypeError)
OddsConstructor(price, format, ties) ==
    IF ~Truthy(format) \/ (IsString(format) /\ FirstCharLower(format.s) = <<"d">>)
    THEN decimalBranch(price, ties)
    ELSE IF ~IsString(format) THEN <<Throw(OddsError("TypeError", <<>>))>>
    ELSE IF FirstCharLower(format.s) = <<"f">> THEN fractionalBranch(price, ties)
    ELSE IF FirstCharLower(format.s) = <<"a">> THEN americanBranch(price, ties)
    ELSE <<Throw(OddsError("unknownFormat", format.s))>>

-----------------------------------------------------------------------------
(* SpecOdds: a client that constructs one Odds and then a second one from  *)
(* the decimal field of the first.  heap holds the instances under         *)
(* construction and built; out counts the effects the constructor has had. *)

OddsRef(id) == [t |-> "object", k |-> "odds", id |-> id]

\* the instance the constructor starts from
Blank == [d |-> Undefined, f |-> Undefined, a |-> Undefined]

Running(pc) == [status |-> "running", pc |-> pc]

Effects == OddsConstructor(call.args[1], call.args[2], call.ties)

\* new Odds(price, format) is entered; origin is what the client built the
\* price from, if anything
OddsNew(price, format, ties, origin) ==
    /\ call' = [op |-> "Odds", this |-> Len(heap) + 1, args |-> <<price, format>>,
                ties |-> ties, origin |-> origin]
    /\ heap' = Append(heap, Blank)
    /\ out' = Running(0)

\* the next statement of the constructor assigns a field
OddsAssign ==
    /\ out.status = "running" /\ out.pc < Len(Effects)
    /\ LET e == Effects[out.pc + 1]
       IN  /\ e.status = "assign"
           /\ heap' = [heap EXCEPT ![call.this][e.field] = e.val]
           /\ out' = Running(out.pc + 1)
    /\ UNCHANGED call

\* the next statement of the constructor throws
OddsThrow ==
    /\ out.status = "running" /\ out.pc < Len(Effects)
    /\ LET e == Effects[out.pc + 1]
       IN  /\ e.status = "throw"
           /\ out' = e
    /\ UNCHANGED <<heap, call>>

\* the constructor returns
OddsReturn ==
    /\ out.status = "running" /\ out.pc = Len(Effects)
    /\ out' = Return(OddsRef(call.this))
    /\ UNCHANGED <<heap, call>>

PriceNumbers ==
    {Num(1), Num(0), Num(-2), Num(4), Num(5), Num(-200), Fin(375, 100),
     Fin(1005, 1000), Fin(1004, 1000), Fin(1996, 1000), Fin(26, 10), Fin(1, 2),
     Fin(17, 8), Fin(2605, 1000), Fin(10046, 10000), Fin(4, 1000),
     Fin(1064, 1000), Fin(83446, 10000), NaN, PosInf}

PriceStrings ==
    {Str(<<"1", ".", "0", "1">>), Str(<<"b", "a", "d", " ", "i", "n", "p", "u", "t">>),
     Str(<<"1", "/", "5">>), Str(<<"1", "/", "1", "0", "0">>), Str(<<"1", "/", "4">>),
     Str(<<"4", "0", "/", "8", "5">>), Str(<<"1">>), Str(<<"2", "0", "0">>),
     Str(<<"+", "1", "2", "5">>), Str(<<"-", "2", "0", "0">>), Str(<<"1", "/", "0">>),
     Str(<<"0", "/", "0">>), Str(<<"-", "5", "/", "1">>), Str(<<"8", "/", "2", "5">>),
     Str(<<"1", "/", "2", "0", "0">>), Str(<<"3", "/", "2", "0", "0">>),
     Str(<<"1", "/", "8">>), Str(<<"-", "8", "/", "1">>),
     Str(<<"+", "0">>), Str(<<"-", "0">>), Str(<<"+", "0", ".", "4">>),
     Str(<<"+", "1", ".", "5">>), Str(<<"+", "1", "2", ".", "5">>),
     Str(<<"+", "I", "n", "f", "i", "n", "i", "t", "y">>), Str(<<"-", "-", "1", "0", "0">>),
     Str(<<"+", "-", "5", "0">>), Str(<<"-", "-", "0">>), Str(<<"+", "a">>), Str(<<"1", "/", "2", "/", "3">>),
     Str(<<"1", "/", "x">>), Str(<<"/">>), Empty}

PriceInputs ==
    PriceNumbers \cup PriceStrings
        \cup {Undefined, Null, Bool(FALSE), Bool(TRUE), PlainObject}

FormatInputs ==
    {Undefined, Empty, Str(<<"d">>), Str(<<"D", "e", "c">>), Str(<<"f">>),
     Str(<<"F">>), Str(<<"a">>), Str(<<"?">>), Str(<<"x", "d">>), Num(4)}

TiesInputs == [fix : BOOLEAN, rnd : BOOLEAN]

OddsNewStep ==
    /\ call = NoCall
    /\ \E price \in PriceInputs, format \in FormatInputs, ties \in TiesInputs :
           OddsNew(price, format, ties, <<>>)

\* new Odds(o.d, 'd') for the instance o built before
OddsReparseStep ==
    /\ call.op = "Odds" /\ out.status = "return" /\ Len(heap) = 1
    /\ OddsNew(heap[1].d, Str(<<"d">>), call.ties, call.args)

InitOdds ==
    /\ heap = <<>>
    /\ call = NoCall
    /\ out = NoOutcome

NextOdds ==
    \/ OddsNewStep
    \/ OddsReparseStep
    \/ OddsAssign
    \/ OddsThrow
    \/ OddsReturn

SpecOdds == InitOdds /\ [][NextOdds]_vars

-----------------------------------------------------------------------------
(* Properties.  They are stated on the last call and its outcome, in terms *)
(* of integers and exact fractions, not of the operators above.            *)

Threw(e) == out = Throw(e)
Returned == out.status = "return"

\* the argument k of the last call, the receiver and the instance returned
Arg(k) == call.args[k]
This == heap[call.this]
Result == heap[out.val.id]

\* the exact sum of a sequence of numbers
RECURSIVE SumNums(_)
SumNums(q) == IF q = <<>> THEN Num(0) ELSE NumAdd(Head(q), SumNums(Tail(q)))

\* the sum of the cents of the instances an array of references names
RECURSIVE SumCents(_)
SumCents(refs) ==
    IF refs = <<>> THEN 0 ELSE heap[Head(refs).id].cents.n + SumCents(Tail(refs))

\* a non-empty array of numbers
IsPortions(p) == IsArray(p) /\ p.items # <<>>

AddUpTo100(p) == IsPortions(p) /\ SumNums(p.items) = Num(100)

\* C1: whenever the portions add up to exactly 100, split succeeds and the
\* subunits of the instances it returns add up to the subunits of the receiver.
C1_SplitSumIsExact ==
    (call.op = "split" /\ AddUpTo100(Arg(1)))
        => /\ Returned
           /\ SumCents(out.val.items) = This.cents.n

\* C2: split throws missingArg when portions is absent, no array or empty,
\* and throws portionsSum, returning nothing, for every non-empty array of
\* portions that does not add up to exactly 100.
C2_SplitRejects ==
    call.op = "split"
        => /\ ~IsPortions(Arg(1)) => Threw("missingArg")
           /\ (IsPortions(Arg(1)) /\ ~AddUpTo100(Arg(1))) => Threw("portionsSum")

\* the integer r is the number x rounded to the nearest integer, a half
\* being rounded away from zero
IsRoundOf(r, x) ==
    /\ IsInteger(r) /\ IsFin(x)
    /\ 2 * Abs(r.n * x.d - x.n) <= x.d
    /\ 2 * Abs(r.n * x.d - x.n) = x.d => Abs(r.n) * x.d > Abs(x.n)

BuildOps == {"new", "fromUnit", "plus", "minus", "times", "divide", "perc"}

C4_IntegralSubunits ==
    /\ \A i \in DOMAIN heap : IsInteger(heap[i].cents)
    /\ (call.op = "new" /\ Returned) => IsRoundOf(Result.cents, Arg(1))

\* new Money(-0.5) holds -1
C4_Witness ==
    call.op = "new" /\ Returned /\ Arg(1) = Fin(-1, 2) /\ Result.cents = Num(-1)

\* a finite number, or a string that spells one
IsNumeric(v) ==
    \/ IsFin(v)
    \/ IsString(v) /\ trim(v.s) # <<>> /\ IsFin(StringToNumber(v.s))

\* +Infinity or -Infinity, or a string that spells one
IsInfinite(v) == (IsNum(v) \/ IsString(v)) /\ IsInf(ToNumber(v))

\* the currency new Money gives an instance: the argument trimmed and in
\* upper case, USD when it is absent
CurrencyOf(c) == IF c = Undefined THEN USD ELSE IF c = Eur THEN EUR ELSE <<>>

FromUnitConverts ==
    IsNumeric(Arg(1))
        => /\ Returned
           /\ IsRoundOf(Result.cents, NumMul(ToNumber(Arg(1)), Num(100)))
           /\ Result.currency = CurrencyOf(Arg(2))

\* C5 as claimed: fromUnit(x) holds round(x * 100) for a finite number or
\* numeric string x, and throws the conversion error for every input that is
\* not coercible to a finite number, +Infinity and -Infinity included.
C5_FromUnitAsClaimed ==
    call.op = "fromUnit"
        => /\ FromUnitConverts
           /\ (Arg(1) \in {Undefined, Null} \/ ~IsFin(ToNumber(Arg(1))))
                => Threw("unableToConvert")

\* C5 amended: as claimed, but +Infinity and -Infinity pass the check of
\* fromUnit and are refused by the constructor with its infinity error.
C5_FromUnit ==
    call.op = "fromUnit"
        => /\ FromUnitConverts
           /\ (Arg(1) \in {Undefined, Null} \/ IsNaNValue(ToNumber(Arg(1))))
                => Threw("unableToConvert")
           /\ IsInfinite(Arg(1)) => Threw("infinity")

\* fromUnit(Infinity) has thrown the infinity error
C5_Witness == call.op = "fromUnit" /\ Arg(1) = PosInf /\ Threw("infinity")

\* C6: for a and b of one currency a.plus(b) and then .minus(b) return
\* instances of that currency, and the last of them equals a.
C6_PlusMinusInverse ==
    /\ (call.op \in {"plus", "minus"} /\ This.currency = heap[2].currency)
            => Returned /\ Result.currency = heap[1].currency
    /\ (call.op = "eq" /\ call.this = 4 /\ Arg(1) = MoneyRef(1))
            => out = Return(Bool(TRUE))

\* a.plus(b).minus(b).eq(a) has been evaluated, for non-zero a and b
C6_Witness ==
    /\ call.op = "eq" /\ call.this = 4 /\ out = Return(Bool(TRUE))
    /\ heap[1].cents # Num(0) /\ heap[2].cents # Num(0)
    /\ heap[3].cents = NumAdd(heap[1].cents, heap[2].cents)

\* the operand and the outcome of plus and minus once the operand is an
\* instance: the currencies must agree, and the result is a new instance
BinaryOnInstance ==
    LET m == heap[Arg(1).id]
    IN  IF This.currency # m.currency THEN Threw("currencyMismatch")
        ELSE /\ Returned
             /\ out.val.id \notin {call.this, Arg(1).id}
             /\ Result.currency = This.currency
             /\ Result.cents.d = 1
             /\ Result.cents.n = IF call.op = "plus"
                                  THEN This.cents.n + m.cents.n
                                  ELSE This.cents.n - m.cents.n

\* C7 as claimed: missingArg if the operand is absent, else invalidType if it
\* is no Money, else currencyMismatch if the currencies differ, else the new
\* instance.
C7_OperandChecksAsClaimed ==
    call.op \in {"plus", "minus"}
        => IF Arg(1) \in {Undefined, Null} THEN Threw("missingArg")
           ELSE IF ~IsMoney(Arg(1)) THEN Threw("invalidType")
           ELSE BinaryOnInstance

\* the values that are absent or falsy: undefined, null, false, "", NaN, 0
Falsy == {Undefined, Null, Bool(FALSE), Empty, NaN, Num(0)}

\* C7 amended: missingArg if the operand is absent or any other falsy value
\* (false, the empty string, NaN, 0), else invalidType if it is no Money, else
\* currencyMismatch if the currencies differ, else the new instance.
C7_OperandChecks ==
    call.op \in {"plus", "minus"}
        => IF Arg(1) \in Falsy THEN Threw("missingArg")
           ELSE IF ~IsMoney(Arg(1)) THEN Threw("invalidType")
           ELSE BinaryOnInstance

\* a.plus(0) has thrown missingArg
C7_Witness == call.op = "plus" /\ Arg(1) = Num(0) /\ Threw("missingArg")

\* C8: for new, times, divide and perc the argument throws missingArg when it
\* is absent (for times and divide also when it is "" or false) and never
\* when it is 0, nan when it cannot be coerced to a finite number (other
\* strings, booleans, objects, NaN), infinity when it is +Infinity or
\* -Infinity, and divide throws zeroDivision when the divisor coerces to 0.
C8_NumericArgument ==
    call.op \in {"new", "times", "divide", "perc"}
        => LET n == Arg(1)
           IN  /\ n \in {Undefined, Null} => Threw("missingArg")
               /\ (call.op \in {"times", "divide"} /\ n \in {Empty, Bool(FALSE)})
                    => Threw("missingArg")
               /\ n = Num(0) => ~Threw("missingArg")
               /\ n \in {Ten, Bool(TRUE), PlainObject, NaN} => Threw("nan")
               /\ n \in {PosInf, NegInf} => Threw("infinity")
               /\ (call.op = "divide" /\ n \in {Num(0), Str(<<"0">>)})
                    => Threw("zeroDivision")

\* the result of times, divide or perc on a numeric argument
ArithmeticResult(x) ==
    /\ Returned
    /\ IsRoundOf(Result.cents, x)
    /\ Result.currency = This.currency

C10_Comparisons ==
    call.op \in {"lt", "gt", "lte", "gte"}
        => LET a == This
               b == heap[Arg(1).id]
           IN  IF a.currency # b.currency THEN Threw("comparison")
               ELSE out = Return(Bool(
                        CASE call.op = "lt" -> a.cents.n < b.cents.n
                          [] call.op = "gt" -> a.cents.n > b.cents.n
                          [] call.op = "lte" -> a.cents.n <= b.cents.n
                          [] call.op = "gte" -> a.cents.n >= b.cents.n))

\* a.lte(b) has returned true for two equal amounts
C10_Witness ==
    /\ call.op = "lte" /\ out = Return(Bool(TRUE))
    /\ This.cents = heap[Arg(1).id].cents /\ call.this # Arg(1).id

\* C11: eq returns true exactly when the two currencies are the same and the
\* two amounts are (the major units are the subunits / 100, which are equal
\* to 2 decimals exactly when the subunits are); it returns false, and does
\* not throw, when the currencies differ; and an instance built from a raw
\* amount equals every instance that holds the integer the raw amount rounds to.
C11_Equals ==
    /\ call.op = "eq"
            => LET a == This
                   b == heap[Arg(1).id]
               IN  /\ out = Return(Bool(a.currency = b.currency
                                         /\ a.cents.n = b.cents.n))
                   /\ a.currency # b.currency => out = Return(Bool(FALSE))
    /\ (call.op = "new" /\ Returned)
            => IsRoundOf(Result.cents, ToNumber(Arg(1)))

\* a.eq(b) has returned true for b built by new Money(2.4) and a of 2 subunits
C11_Witness ==
    /\ call.op = "eq" /\ out = Return(Bool(TRUE))
    /\ call.this = 1 /\ Arg(1) = MoneyRef(2)
    /\ heap[1].cents = Num(2) /\ heap[2].cents = Num(2)

-----------------------------------------------------------------------------
(* Properties of Odds.  They are stated on the fields of the instance the  *)
(* last call built, read as integers: hundredths of the decimal field,     *)
(* numerator and denominator of the fractional field.                      *)

\* new Odds has returned: O is the instance, Price and Format the arguments
Built == call.op = "Odds" /\ out.status = "return"
O == heap[call.this]
Price == call.args[1]
Format == call.args[2]

IsFormat(fmt, lower, upper) ==
    IsString(fmt) /\ fmt.s # <<>> /\ fmt.s[1] \in {lower, upper}

\* no format, or one that begins with d or D
IsDecimalFormat(fmt) == fmt \in {Undefined, Empty} \/ IsFormat(fmt, "d", "D")
IsFractionalFormat(fmt) == IsFormat(fmt, "f", "F")
IsAmericanFormat(fmt) == IsFormat(fmt, "a", "A")

\* a finite number above 0, or a string that spells one
IsValidDecimalPrice(p) == IsNumeric(p) /\ ToNumber(p).n > 0

\* digits, with an optional sign when signed
IsIntString(s, signed) ==
    LET u == IF signed /\ s # <<>> /\ s[1] \in {"-", "+"} THEN Tail(s) ELSE s
    IN  u # <<>> /\ AllDigits(u)

\* the integer a string of IsIntString spells
IntOf(s) ==
    IF s[1] = "-" THEN -DigitsToNat(Tail(s))
    ELSE IF s[1] = "+" THEN DigitsToNat(Tail(s))
    ELSE DigitsToNat(s)

\* the decimal digits of an integer
IntStr(i) == (IF i < 0 THEN <<"-">> ELSE <<>>) \o NatToStr(Abs(i))

\* a string [-]digits.dd
IsFixed2(s) ==
    /\ Len(s) >= 4 /\ s[Len(s) - 2] = "."
    /\ IsIntString(SubSeq(s, 1, Len(s) - 3), TRUE)
    /\ s[1] # "+"
    /\ AllDigits(SubSeq(s, Len(s) - 1, Len(s)))

\* the hundredths a string of IsFixed2 spells
HundredthsOf(s) ==
    LET whole == SubSeq(s, 1, Len(s) - 3)
        frac == DigitsToNat(SubSeq(s, Len(s) - 1, Len(s)))
    IN  IF s[1] = "-" THEN -(100 * DigitsToNat(Tail(whole)) + frac)
        ELSE 100 * DigitsToNat(whole) + frac

\* the integers nearest to n / d, d > 0: one, or two when n / d is half-way
Near(n, d) == {k \in {n \div d, (n \div d) + 1} : 2 * Abs(k * d - n) <= d}

\* the fractional field v spells integers a/b in lowest terms with
\* a / b = k / 100
IsReducedFractionOf(v, k) ==
    /\ IsString(v)
    /\ LET parts == SplitOn(v.s, "/")
       IN  /\ Len(parts) = 2
           /\ IsIntString(parts[1], TRUE) /\ IsIntString(parts[2], TRUE)
           /\ LET a == IntOf(parts[1])
                  b == IntOf(parts[2])
              IN  b # 0 /\ a * 100 = k * b /\ GCD(Abs(a), Abs(b)) = 1

\* the american strings of the decimal value k / scale (scale 100 or 1000):
\* the sentinel for 1, round(-100 / (k/scale - 1)) below 2, else "+" and
\* round((k/scale - 1) * 100); a half-way value may round either way
AmericanOf(k, scale) ==
    IF k = scale THEN {<<"-">>}
    ELSE IF k > scale /\ k < 2 * scale
    THEN {IntStr(m) : m \in Near(-100 * scale, k - scale)}
    ELSE IF k < scale
    THEN {IntStr(m) : m \in Near(100 * scale, scale - k)}
    ELSE {<<"+">> \o IntStr(m) : m \in Near(100 * (k - scale), scale)}

\* the decimal field is the price p rounded to 2 decimals
IsDecimalOf(v, p) ==
    /\ IsString(v) /\ IsFixed2(v.s)
    /\ 2 * Abs(HundredthsOf(v.s) * p.d - 100 * p.n) <= p.d

\* C12 as claimed: for a valid decimal price p, decimal is p fixed to 2
\* decimals, fractional is (round(decimal * 100) - 100) / 100 in lowest terms
\* and american is what the rule gives for that 2-decimal value.
C12_DecimalAsClaimed ==
    (call.op = "Odds" /\ IsDecimalFormat(Format) /\ IsValidDecimalPrice(Price))
        => /\ out.status # "throw"
           /\ Built => /\ IsDecimalOf(O.d, ToNumber(Price))
                       /\ IsReducedFractionOf(O.f, HundredthsOf(O.d.s) - 100)
                       /\ IsString(O.a)
                       /\ O.a.s \in AmericanOf(HundredthsOf(O.d.s), 100)

\* C12 amended: decimal is p fixed to 2 decimals; american is what the rule
\* gives for p rounded to 3 decimals, and fractional is (c - 100) / 100 in
\* lowest terms for c the hundredths of that 3-decimal value rounded to 2.
C12_Decimal ==
    (call.op = "Odds" /\ IsDecimalFormat(Format) /\ IsValidDecimalPrice(Price))
        => /\ out.status # "throw"
           /\ Built => LET p == ToNumber(Price)
                       IN  /\ IsDecimalOf(O.d, p)
                           /\ \E k3 \in Near(1000 * p.n, p.d) :
                                  /\ \E c \in Near(k3, 10) :
                                         IsReducedFractionOf(O.f, c - 100)
                                  /\ IsString(O.a)
                                  /\ O.a.s \in AmericanOf(k3, 1000)

\* new Odds(1.004) has been built with decimal 1.00 and american -25000
C12_Witness ==
    /\ Built /\ Price = Fin(1004, 1000) /\ IsDecimalFormat(Format)
    /\ O.d = Str(<<"1", ".", "0", "0">>)
    /\ O.a = Str(<<"-", "2", "5", "0", "0", "0">>)

\* "+N" or "-N" for a natural number N
IsSignedInteger(s) ==
    Len(s) >= 2 /\ s[1] \in {"+", "-"} /\ AllDigits(Tail(s))

\* C13: the american field of every Odds built, whatever the format, is "+N",
\* "-N" or the sentinel "-", and it is the sentinel exactly when the decimal
\* field is "1.00".
C13_AmericanField ==
    Built => /\ IsString(O.a)
             /\ O.a.s = <<"-">> \/ IsSignedInteger(O.a.s)
             /\ O.a.s = <<"-">> <=> O.d = Str(<<"1", ".", "0", "0">>)

\* the value v spells integers a/b, b # 0, with no common divisor
IsReducedFraction(v) ==
    /\ IsString(v)
    /\ LET parts == SplitOn(v.s, "/")
       IN  /\ Len(parts) = 2
           /\ IsIntString(parts[1], TRUE) /\ IsIntString(parts[2], TRUE)
           /\ IntOf(parts[2]) # 0
           /\ GCD(Abs(IntOf(parts[1])), Abs(IntOf(parts[2]))) = 1

\* C14 as claimed: the fractional field of every Odds built, whatever the
\* format, is "num/den" in lowest terms.
C14_ReducedAsClaimed == Built => IsReducedFraction(O.f)

\* C14 amended: for decimal and american input the fractional field is
\* "num/den" in lowest terms (for american input of the value decimal - 1),
\* or the decimal field followed by "/1" when that is infinite; for
\* fractional input it is the price as given, reduced or not.
C14_Reduced ==
    Built => IF IsFractionalFormat(Format) THEN O.f = Price
             ELSE IF ~IsFixed2(O.d.s) THEN O.f = Str(O.d.s \o <<"/", "1">>)
             ELSE /\ IsReducedFraction(O.f)
                  /\ IsAmericanFormat(Format)
                        => IsReducedFractionOf(O.f, HundredthsOf(O.d.s) - 100)

\* new Odds('40/85', 'f') has been built with fractional 40/85
C14_Witness ==
    /\ Built /\ IsFractionalFormat(Format)
    /\ O.f = Str(<<"4", "0", "/", "8", "5">>)
    /\ O.d = Str(<<"1", ".", "4", "7">>)

\* the second construction, from the decimal field of the first instance
IsReparse == call.op = "Odds" /\ call.this = 2

\* a string that spells a finite number above 0 to 2 decimals
IsPositiveFixed2(v) == IsString(v) /\ IsFixed2(v.s) /\ HundredthsOf(v.s) > 0

\* C15 as claimed: new Odds(o.d, 'd') succeeds for every Odds o built, and
\* has the decimal, fractional and american fields of o.
C15_ReparseAsClaimed ==
    IsReparse => /\ out.status # "throw"
                 /\ Built => heap[2] = heap[1]

\* C15 amended: new Odds(o.d, 'd') succeeds when o.d is a finite number above
\* 0 and then has the decimal field of o, the fractional field of o when o
\* was built from american input and the american field of o when o was
\* built from fractional input.
C15_Reparse ==
    IsReparse => /\ IsPositiveFixed2(heap[1].d) => out.status # "throw"
                 /\ Built => /\ heap[2].d = heap[1].d
                             /\ IsAmericanFormat(call.origin[2])
                                    => heap[2].f = heap[1].f
                             /\ IsFractionalFormat(call.origin[2])
                                    => heap[2].a = heap[1].a

\* the Odds built from '40/85' has been built again from its decimal 1.47,
\* with fractional 47/100
C15_Witness ==
    /\ IsReparse /\ Built
    /\ heap[1].f = Str(<<"4", "0", "/", "8", "5">>)
    /\ heap[2].d = Str(<<"1", ".", "4", "7">>)
    /\ heap[2].f = Str(<<"4", "7", "/", "1", "0", "0">>)

\* new Odds has thrown the error name, about the string v
OddsThrew(name, v) == call.op = "Odds" /\ out = Throw(OddsError(name, v))

BadInput == Str(<<"b", "a", "d", " ", "i", "n", "p", "u", "t">>)

\* a string whose first character is none of d, f, a in either case
IsUnknownFormat(fmt) ==
    IsString(fmt) /\ fmt.s # <<>>
        /\ fmt.s[1] \notin {"d", "D", "f", "F", "a", "A"}

\* no field of the instance under construction has been assigned
NothingAssigned == O = Blank

\* C16 as claimed: a construction that throws has assigned no field; in
\* decimal format a price <= 0 throws the non-positive error and the price
\* "bad input" the invalid-price error; a format that begins with none of
\* d, f, a throws the unknown-format error.
C16_FailFastAsClaimed ==
    (call.op = "Odds" /\ out.status = "throw")
        => /\ NothingAssigned
           /\ (IsDecimalFormat(Format) /\ IsNum(Price) /\ ~IsNaNValue(Price)
                 /\ ~NumGt(Price, Num(0)))
                => OddsThrew("negative", <<>>)
           /\ (IsDecimalFormat(Format) /\ Price = BadInput)
                => OddsThrew("invalidPrice", BadInput.s)
           /\ IsUnknownFormat(Format) => OddsThrew("unknownFormat", Format.s)

\* new Odds has thrown the error name, about whatever string
OddsThrewSome(name) ==
    call.op = "Odds" /\ out.status = "throw" /\ out.err.name = name

\* C16 amended: a construction that throws has assigned no field; in decimal
\* format a finite price <= 0 throws the non-positive error, and a string or
\* number that is no finite number ("bad input", NaN, the infinities) throws
\* the error of decimal odds that are no finite number, the invalid-price
\* error being kept for prices that are neither string nor number; a format
\* that begins with none of d, f, a throws the unknown-format error.
C16_FailFast ==
    (call.op = "Odds" /\ out.status = "throw")
        => /\ NothingAssigned
           /\ (IsDecimalFormat(Format) /\ IsFin(Price) /\ Price.n <= 0)
                => OddsThrew("negative", <<>>)
           /\ (IsDecimalFormat(Format) /\ Price = BadInput)
                => OddsThrew("nan", NaNStr)
           /\ (IsDecimalFormat(Format) /\ (IsNum(Price) \/ IsString(Price))
                 /\ ~IsFin(ToNumber(Price)))
                => OddsThrewSome("nan")
           /\ (IsDecimalFormat(Format) /\ ~IsNum(Price) /\ ~IsString(Price))
                => OddsThrewSome("invalidPrice")
           /\ IsUnknownFormat(Format) => OddsThrew("unknownFormat", Format.s)

\* new Odds('bad input', 'd') has thrown, with no field assigned
C16_Witness ==
    /\ call.op = "Odds" /\ Price = BadInput /\ IsDecimalFormat(Format)
    /\ OddsThrew("nan", NaNStr) /\ NothingAssigned

\* how null, undefined and the booleans read in a message
Stringified(p) ==
    CASE p = Null -> <<"n", "u", "l", "l">>
      [] p = Undefined -> <<"u", "n", "d", "e", "f", "i", "n", "e", "d">>
      [] p = Bool(TRUE) -> <<"t", "r", "u", "e">>
      [] p = Bool(FALSE) -> <<"f", "a", "l", "s", "e">>

\* C17: in fractional or american format a price that is neither string nor
\* number (null, undefined, a boolean) throws the invalid-price error naming
\* the price; a string that has not two parts around one slash throws the
\* invalid-fraction error in fractional format, and a string of 2 or more
\* characters that begins with neither + nor - throws the invalid-american
\* error in american format.
C17_StructuralErrors ==
    (call.op = "Odds" /\ out.status # "running"
        /\ (IsFractionalFormat(Format) \/ IsAmericanFormat(Format)))
        => /\ Price \in {Null, Undefined, Bool(TRUE), Bool(FALSE)}
                => OddsThrew("invalidPrice", Stringified(Price))
           /\ (IsFractionalFormat(Format) /\ IsString(Price)
                 /\ Cardinality({i \in 1..Len(Price.s) : Price.s[i] = "/"}) # 1)
                => OddsThrew("invalidFraction", Price.s)
           /\ (IsAmericanFormat(Format) /\ IsString(Price) /\ Len(Price.s) >= 2
                 /\ Price.s[1] \notin {"+", "-"})
                => OddsThrew("invalidAmerican", Price.s)

\* the integer nearest to n / d, d > 0, a half going away from zero
RoundAway(n, d) == Sign(n) * ((2 * Abs(n) + d) \div (2 * d))

\* the shares of the running-balance allocation from portion i on: the
\* rounded share when the balance covers it, else the balance, which is then 0
RECURSIVE RunningBalanceShares(_, _, _, _)
RunningBalanceShares(cents, portions, i, balance) ==
    IF i > Len(portions) THEN <<>>
    ELSE LET share == RoundAway(cents * portions[i].n, 100 * portions[i].d)
         IN  IF share > balance
             THEN <<balance>> \o RunningBalanceShares(cents, portions, i + 1, 0)
             ELSE <<share>> \o RunningBalanceShares(cents, portions, i + 1,
                                                    balance - share)

\* C18: the instances split returns hold, in order, the shares of a running
\* balance that starts at the amount: a share above the balance is replaced
\* by the balance, which becomes 0 for the portions after it; any other share
\* is granted and taken from the balance.
C18_RunningBalance ==
    (call.op = "split" /\ Returned)
        => [k \in 1..Len(out.val.items) |-> heap[out.val.items[k].id].cents.n]
              = RunningBalanceShares(This.cents.n, Arg(1).items, 1, This.cents.n)

\* the price of the last call as the constructor reads it: a string as it
\* is, an integer as its digits
PriceString == IF IsString(Price) THEN Price.s ELSE IntStr(Price.n)

\* C19: for fractional input "num/den" the fractional field is the input,
\* decimal is num/den + 1 fixed to 2 decimals and american is what the rule
\* gives for that 2-decimal value; for american input "+n" or "-n" the
\* american field is the input, decimal is 1 + n/100 or 1 + 100/n fixed to 2
\* decimals and fractional is (decimal - 1) in lowest terms, taken from the
\* 2-decimal value (num, den and n finite, den and the n of "-n" not 0).
C19_Derived ==
    /\ (Built /\ IsFractionalFormat(Format))
         => /\ O.f = Str(PriceString)
            /\ LET parts == SplitOn(PriceString, "/")
                   num == ToNumber(Str(parts[1]))
                   den == ToNumber(Str(parts[2]))
               IN  (IsFin(num) /\ IsFin(den) /\ den.n # 0)
                     => /\ IsDecimalOf(O.d, Fin(num.n * den.d + den.n * num.d,
                                                num.d * den.n))
                        /\ IsString(O.a)
                        /\ O.a.s \in AmericanOf(HundredthsOf(O.d.s), 100)
    /\ (Built /\ IsAmericanFormat(Format))
         => /\ O.a = Str(PriceString)
            /\ LET n == ToNumber(Str(Tail(PriceString)))
                   pos == PriceString[1] = "+"
               IN  (IsFin(n) /\ (pos \/ n.n # 0))
                     => /\ IsDecimalOf(O.d, IF pos
                                            THEN Fin(100 * n.d + n.n, 100 * n.d)
                                            ELSE Fin(n.n + 100 * n.d, n.n))
                        /\ IsReducedFractionOf(O.f, HundredthsOf(O.d.s) - 100)

\* new Odds('+125', 'a') has been built with decimal 2.25 and fractional 5/4
C19_Witness ==
    /\ Built /\ IsAmericanFormat(Format) /\ Price = Str(<<"+", "1", "2", "5">>)
    /\ O.a = Price
    /\ O.d = Str(<<"2", ".", "2", "5">>)
    /\ O.f = Str(<<"5", "/", "4">>)

\* C20: the decimal field of every Odds built, whatever the format, spells a
\* finite number above 0 with exactly 2 decimals.
C20_PositiveDecimal == Built => IsPositiveFixed2(O.d)

====
